---- MODULE Spec2Model ----
(***************************************************************************)
(* RenderGraph (src/RenderGraph.hpp): the frame orchestration engine.      *)
(* The CPU thread runs addPass / init / executeFrame; the device (graphics *)
(* queue, presentation engine) runs asynchronously and is coupled to the   *)
(* CPU only through the per-slot fence and the two per-slot semaphores.    *)
(* executeFrame is modelled one device/command-buffer call per step, so    *)
(* that device progress can interleave with it as it does on hardware.     *)
(***************************************************************************)
EXTENDS Integers, Sequences, FiniteSets, TLC

\* ---- bounds of the model ------------------------------------------------
MaxImages == 2
MaxPasses == 2
MaxCalls == 3
MaxCycles == 2
MaxFaults == 1
CounterBits == 3
WrapSlots == 3
WrapCalls == 2
MaxInits == 2
MaxFamilies == 3

\* m_currentFrame is a uint64_t; the model gives it CounterBits bits, so that the
\* counter wraps after 2^CounterBits increments as the real one after 2^64.
CounterModulus == 2 ^ CounterBits

\* ---- RenderPassNode ------------------------------------------------------
\* The application's two nodes, and the two remaining combinations of
\* "requests a transition" and "has a record callback".
MainPass ==
    [name |-> "MainPass", recordFunc |-> TRUE,
     oldLayout |-> "Undefined", newLayout |-> "ColorAttachmentOptimal",
     srcAccessMask |-> "None", dstAccessMask |-> "ColorAttachmentWrite",
     srcStageMask |-> "TopOfPipe", dstStageMask |-> "ColorAttachmentOutput"]

PresentTransition ==
    [name |-> "PresentTransition", recordFunc |-> FALSE,
     oldLayout |-> "ColorAttachmentOptimal", newLayout |-> "PresentSrcKHR",
     srcAccessMask |-> "ColorAttachmentWrite", dstAccessMask |-> "None",
     srcStageMask |-> "ColorAttachmentOutput", dstStageMask |-> "BottomOfPipe"]

\* A default-constructed node: both layouts Undefined, empty masks, no callback.
RenderPassNode ==
    [name |-> "", recordFunc |-> FALSE,
     oldLayout |-> "Undefined", newLayout |-> "Undefined",
     srcAccessMask |-> "None", dstAccessMask |-> "None",
     srcStageMask |-> "None", dstStageMask |-> "None"]

CallbackOnly ==
    [RenderPassNode EXCEPT !.name = "CallbackOnly", !.recordFunc = TRUE]

PassNodes == {MainPass, PresentTransition, RenderPassNode, CallbackOnly}

\* The passes the application registers, in its order.
ApplicationPasses == <<MainPass, PresentTransition>>

\* ---- state ---------------------------------------------------------------
VARIABLES
    numImages,                    \* m_swapchainImages.size(), fixed at construction
    acquiresAhead,                \* the swapchain hands out images still queued
    suboptimal,                   \* the swapchain no longer matches the surface exactly
    m_imageCount,
    m_currentFrame,
    m_passes,
    m_commandBuffers,             \* sequences of handles; slot i is element i+1
    m_presentCompleteSemaphores,
    m_renderFinishedSemaphores,
    m_inFlightFences,
    cmdBuf,                       \* device objects, by handle
    semaphore,
    fence,
    imageState,                   \* per swapchain image: free / acquired / queued
    acquires,                     \* pending semaphore signals of acquisitions
    submissions,                  \* graphics-queue submissions not yet completed
    presents,                     \* present requests not yet executed
    pc,                           \* position of the CPU thread
    frameIndex,                   \* locals of executeFrame
    imageIndex,
    acquireResult,                \* acquireResult.first
    passIdx,
    opLog,                        \* calls made by the current executeFrame
    lastOp,                       \* the last public operation entered
    result,                       \* how it ended: none / returned / threw
    initCalls,                    \* number of init() calls
    calls,                        \* number of executeFrame() calls
    faults,                       \* ... of which threw
    okCalls,                      \* ... of which returned normally
    queueFamilyProperties,        \* per queue family: graphics, present support
    graphicsFamily,               \* members of the application
    presentFamily,
    deviceQueues,                 \* families the logical device has a queue of
    graphicsQueue,
    presentQueue,
    setup                         \* position of initVulkan()

deviceVars == <<queueFamilyProperties, graphicsFamily, presentFamily, deviceQueues,
                graphicsQueue, presentQueue, setup>>
swapchainVars == <<numImages, acquiresAhead, suboptimal>>
gpuVars == <<cmdBuf, semaphore, fence, imageState, acquires, submissions, presents>>
memberVars == <<m_imageCount, m_currentFrame, m_passes, m_commandBuffers,
                m_presentCompleteSemaphores, m_renderFinishedSemaphores,
                m_inFlightFences>>
localVars == <<frameIndex, imageIndex, acquireResult, passIdx, opLog>>
ghostVars == <<lastOp, result, initCalls, calls, faults, okCalls>>
vars == <<deviceVars, swapchainVars, memberVars, gpuVars, pc, localVars, ghostVars>>

NoObjects == [h \in {} |-> FALSE]

\* vk::raii::Queue(device, family, 0): the handle of queue 0 of the family.
\* A handle that names no queue is the empty tuple.
Queue(family) == <<family, 0>>

\* The device most machines offer: one queue family that does graphics and
\* presents to the surface, and both queues are its queue 0.
OneFamilyDevice ==
    /\ queueFamilyProperties = <<[graphics |-> TRUE, present |-> TRUE]>>
    /\ graphicsFamily = 0
    /\ presentFamily = 0
    /\ deviceQueues = {0}
    /\ graphicsQueue = Queue(0)
    /\ presentQueue = Queue(0)
    /\ setup = "done"

\* The RenderGraph as its constructor leaves it.
InitRenderGraph ==
    /\ numImages \in 0..MaxImages
    /\ acquiresAhead \in BOOLEAN
    /\ suboptimal = FALSE
    /\ m_imageCount = 0
    /\ m_currentFrame = 0
    /\ m_passes = <<>>
    /\ m_commandBuffers = <<>>
    /\ m_presentCompleteSemaphores = <<>>
    /\ m_renderFinishedSemaphores = <<>>
    /\ m_inFlightFences = <<>>
    /\ cmdBuf = NoObjects
    /\ semaphore = NoObjects
    /\ fence = NoObjects
    /\ imageState = [i \in 0..(numImages - 1) |-> "free"]
    /\ acquires = {}
    /\ submissions = {}
    /\ presents = {}
    /\ pc = "idle"
    /\ frameIndex = 0
    /\ imageIndex = 0
    /\ acquireResult = "none"
    /\ passIdx = 1
    /\ opLog = <<>>
    /\ lastOp = "none"
    /\ result = "none"
    /\ initCalls = 0
    /\ calls = 0
    /\ faults = 0
    /\ okCalls = 0

\* The state after the application constructed the RenderGraph.
Init == InitRenderGraph /\ OneFamilyDevice

\* Faulty variant: the node is put in front of the list.
addPassInFront(node) ==
    /\ pc = "idle"
    /\ m_passes' = <<node>> \o m_passes
    /\ lastOp' = "addPass"
    /\ result' = "returned"
    /\ UNCHANGED <<deviceVars, swapchainVars, m_imageCount, m_currentFrame, m_commandBuffers,
                   m_presentCompleteSemaphores, m_renderFinishedSemaphores,
                   m_inFlightFences, gpuVars, pc, localVars,
                   initCalls, calls, faults, okCalls>>

\* ---- addPass -------------------------------------------------------------
addPass(node) ==
    /\ pc = "idle"
    /\ m_passes' = Append(m_passes, node)
    /\ lastOp' = "addPass"
    /\ result' = "returned"
    /\ UNCHANGED <<deviceVars, swapchainVars, m_imageCount, m_currentFrame, m_commandBuffers,
                   m_presentCompleteSemaphores, m_renderFinishedSemaphores,
                   m_inFlightFences, gpuVars, pc, localVars,
                   initCalls, calls, faults, okCalls>>

\* ---- init ----------------------------------------------------------------
\* Handles of the objects allocated by the r-th init() call for slot i.
CmdHandle(r, i) == <<"cmd", r, i>>
PresentCompleteHandle(r, i) == <<"presentComplete", r, i>>
RenderFinishedHandle(r, i) == <<"renderFinished", r, i>>
FenceHandle(r, i) == <<"fence", r, i>>

\* Faulty variant: the zero-image check is missing.
InitNeverRejects(n) == FALSE

\* if (m_imageCount == 0) throw std::runtime_error(...)
InitRejects(n) == n = 0

\* Faulty variant: the fence is created without the eSignaled flag.
FenceCreateUnsignaled == FALSE

\* vk::FenceCreateInfo(vk::FenceCreateFlagBits::eSignaled)
FenceCreateSignaled == TRUE

\* Faulty variant: a semaphore that starts signaled.
SemaphoreCreateSet == TRUE

\* vk::SemaphoreCreateInfo{}: a binary semaphore starts unsignaled.
SemaphoreCreateSignaled == FALSE

\* A freshly allocated command buffer: initial state, nothing recorded.
NewCommandBuffer == [state |-> "initial", cmds |-> <<>>]

init ==
    /\ pc = "idle"
    /\ lastOp' = "init"
    /\ initCalls' = initCalls + 1
    /\ m_imageCount' = numImages
    /\ IF InitRejects(numImages)
       THEN /\ result' = "threw"
            /\ UNCHANGED <<m_commandBuffers, m_presentCompleteSemaphores,
                           m_renderFinishedSemaphores, m_inFlightFences,
                           cmdBuf, semaphore, fence>>
       ELSE LET r == initCalls + 1
                n == numImages
                newCmds == [k \in 1..n |-> CmdHandle(r, k - 1)]
                newPC == [k \in 1..n |-> PresentCompleteHandle(r, k - 1)]
                newRF == [k \in 1..n |-> RenderFinishedHandle(r, k - 1)]
                newF == [k \in 1..n |-> FenceHandle(r, k - 1)]
            IN  /\ result' = "returned"
                \* emplace_back onto m_commandBuffers, which is not cleared
                /\ m_commandBuffers' = m_commandBuffers \o newCmds
                /\ cmdBuf' = [h \in {newCmds[k] : k \in 1..n} |-> NewCommandBuffer]
                                @@ cmdBuf
                \* clear() destroys the previous semaphores and fences
                /\ m_presentCompleteSemaphores' = newPC
                /\ m_renderFinishedSemaphores' = newRF
                /\ m_inFlightFences' = newF
                /\ semaphore' = [h \in {newPC[k] : k \in 1..n} \cup {newRF[k] : k \in 1..n}
                                    |-> SemaphoreCreateSignaled]
                /\ fence' = [h \in {newF[k] : k \in 1..n} |-> FenceCreateSignaled]
    /\ UNCHANGED <<deviceVars, swapchainVars, m_currentFrame, m_passes, imageState, acquires,
                   submissions, presents, pc, localVars, calls, faults, okCalls>>

\* ---- executeFrame --------------------------------------------------------
\* Faulty variant: an off-by-one slot selection.
FrameIndexOffByOne(currentFrame, imageCount) == (currentFrame + 1) % imageCount

\* const uint32_t frameIndex = m_currentFrame % m_imageCount;
FrameIndex(currentFrame, imageCount) == currentFrame % imageCount

\* What the build can do with m_currentFrame % 0 followed by operator[] on an
\* empty vector: the division traps, or it yields some value and the code goes
\* on with a reference to an element that does not exist.
UndefinedOutcomes == {"trap", "wild_reference"}

\* The slot's objects, as bound at the top of executeFrame.
inFlightFence == m_inFlightFences[frameIndex + 1]
presentComplete == m_presentCompleteSemaphores[frameIndex + 1]
renderFinished == m_renderFinishedSemaphores[frameIndex + 1]
cmd == m_commandBuffers[frameIndex + 1]

InCall == pc \in {"wait", "acquire", "begin", "passes", "reset", "submit",
                  "present", "advance"}

Logged(op) == Append(opLog, op)

\* Faulty variant: a cycle over an empty pass list is cut short.
StepAfterSelectSkipsEmpty == IF m_passes = <<>> THEN "advance" ELSE "wait"

\* Faulty variant: the wait on the fence is left out.
StepAfterSelectNoWait == "acquire"

\* The statement that follows the binding of the slot's objects.
StepAfterSelect == "wait"

\* Entry: slot selection.
executeFrame ==
    /\ pc = "idle"
    /\ calls' = calls + 1
    /\ lastOp' = "executeFrame"
    /\ result' = "none"
    /\ opLog' = <<>>
    /\ passIdx' = 1
    /\ IF m_imageCount = 0
       THEN /\ pc' \in UndefinedOutcomes
            /\ UNCHANGED frameIndex
       ELSE /\ frameIndex' = FrameIndex(m_currentFrame, m_imageCount)
            /\ pc' = StepAfterSelect
    /\ UNCHANGED <<deviceVars, swapchainVars, memberVars, gpuVars, imageIndex, acquireResult,
                   initCalls, faults, okCalls>>

\* Faulty variant: the wait returns whatever the state of the fence (a zero timeout).
FenceWaitReturnsAtOnce(f) == TRUE

\* waitForFences(fence, VK_TRUE, UINT64_MAX) returns once the fence is signaled.
FenceWaitReturns(f) == fence[f]

waitForFences ==
    /\ pc = "wait"
    /\ FenceWaitReturns(inFlightFence)
    /\ pc' = "acquire"
    /\ opLog' = Logged("wait")
    /\ UNCHANGED <<deviceVars, swapchainVars, memberVars, gpuVars, frameIndex, imageIndex, acquireResult,
                   passIdx, ghostVars>>

\* executeFrame is left: its locals are gone.
LocalsGone ==
    /\ frameIndex' = 0
    /\ imageIndex' = 0
    /\ acquireResult' = "none"
    /\ passIdx' = 1

\* Faulty variant: the failure is swallowed and the call returns normally.
ThrowsUnreported ==
    /\ faults < MaxFaults
    /\ faults' = faults + 1
    /\ pc' = "idle"
    /\ result' = "returned"
    /\ LocalsGone
    /\ UNCHANGED <<lastOp, initCalls, calls, okCalls, opLog>>

\* Faulty variant: a failed operation is issued again.
ThrowsRetries ==
    /\ faults < MaxFaults
    /\ faults' = faults + 1
    /\ UNCHANGED <<pc, result, frameIndex, imageIndex, acquireResult, passIdx>>
    /\ UNCHANGED <<lastOp, initCalls, calls, okCalls, opLog>>

\* The call throws: the exception leaves executeFrame at once.
Throws ==
    /\ faults < MaxFaults
    /\ faults' = faults + 1
    /\ pc' = "idle"
    /\ result' = "threw"
    /\ LocalsGone
    /\ UNCHANGED <<lastOp, initCalls, calls, okCalls, opLog>>

\* The images acquireNextImage can return: those the presentation engine has
\* released and, with a swapchain that hands out images ahead of time, those
\* still queued for presentation; the semaphore is signaled once the image is
\* really free.
Available(i) ==
    \/ imageState[i] = "free"
    \/ acquiresAhead /\ imageState[i] = "queued"

\* The success code acquireNextImage returns with the image index.
AcquireResult == IF suboptimal THEN "eSuboptimalKHR" ELSE "eSuccess"

\* Faulty variant: a suboptimal swapchain ends the cycle without a frame.
StepAfterAcquireSkipsFrame(acquired) ==
    IF acquired = "eSuboptimalKHR" THEN "advance" ELSE "begin"

\* uint32_t imageIndex = acquireResult.second; the result code is not looked
\* at, and recording starts.
StepAfterAcquire(acquired) == "begin"

acquireNextImage ==
    /\ pc = "acquire"
    /\ \/ \E i \in DOMAIN imageState :
            /\ Available(i)
            /\ imageIndex' = i
            /\ acquireResult' = AcquireResult
            /\ imageState' = [imageState EXCEPT ![i] = "acquired"]
            /\ acquires' = acquires \cup {[sem |-> presentComplete, image |-> i,
                                           call |-> calls]}
            /\ opLog' = Logged("acquire")
            /\ pc' = StepAfterAcquire(AcquireResult)
            /\ UNCHANGED <<ghostVars, frameIndex, passIdx>>
       \/ /\ Throws
          /\ UNCHANGED <<imageState, acquires>>
    /\ UNCHANGED <<deviceVars, swapchainVars, memberVars, cmdBuf, semaphore, fence, submissions,
                   presents>>

\* cmd.begin(eOneTimeSubmit): resets the buffer and starts recording, or
\* throws and leaves the buffer as it was.
begin ==
    /\ pc = "begin"
    /\ \/ /\ cmdBuf' = [cmdBuf EXCEPT ![cmd] = [state |-> "recording", cmds |-> <<>>]]
          /\ passIdx' = 1
          /\ opLog' = Logged("begin")
          /\ pc' = "passes"
          /\ UNCHANGED <<ghostVars, frameIndex, imageIndex, acquireResult>>
       \/ /\ Throws
          /\ UNCHANGED cmdBuf
    /\ UNCHANGED <<deviceVars, swapchainVars, memberVars, semaphore, fence, imageState, acquires,
                   submissions, presents>>

\* Faulty variant: a barrier for every pass.
AlwaysBarrier(pass) == TRUE

\* Faulty variant: a pass without a callback is skipped altogether.
NeedsBarrierOnlyWithCallback(pass) ==
    pass.oldLayout # pass.newLayout /\ pass.recordFunc

\* if (pass.oldLayout != pass.newLayout)
NeedsBarrier(pass) == pass.oldLayout # pass.newLayout

\* Faulty variant: the barrier names the image at the slot index.
ImageMemoryBarrier2BySlot(pass, image) ==
    [cmd |-> "pipelineBarrier2",
     imageMemoryBarrierCount |-> 1,
     srcStageMask |-> pass.srcStageMask,
     srcAccessMask |-> pass.srcAccessMask,
     dstStageMask |-> pass.dstStageMask,
     dstAccessMask |-> pass.dstAccessMask,
     oldLayout |-> pass.oldLayout,
     newLayout |-> pass.newLayout,
     srcQueueFamilyIndex |-> "VK_QUEUE_FAMILY_IGNORED",
     dstQueueFamilyIndex |-> "VK_QUEUE_FAMILY_IGNORED",
     image |-> frameIndex]

\* Faulty variant: the two sides of the dependency are exchanged.
ImageMemoryBarrier2Swapped(pass, image) ==
    [cmd |-> "pipelineBarrier2",
     imageMemoryBarrierCount |-> 1,
     srcStageMask |-> pass.dstStageMask,
     srcAccessMask |-> pass.dstAccessMask,
     dstStageMask |-> pass.srcStageMask,
     dstAccessMask |-> pass.srcAccessMask,
     oldLayout |-> pass.oldLayout,
     newLayout |-> pass.newLayout,
     srcQueueFamilyIndex |-> "VK_QUEUE_FAMILY_IGNORED",
     dstQueueFamilyIndex |-> "VK_QUEUE_FAMILY_IGNORED",
     image |-> image]

\* The vk::ImageMemoryBarrier2 built for a pass, inside its DependencyInfo.
ImageMemoryBarrier2(pass, image) ==
    [cmd |-> "pipelineBarrier2",
     imageMemoryBarrierCount |-> 1,
     srcStageMask |-> pass.srcStageMask,
     srcAccessMask |-> pass.srcAccessMask,
     dstStageMask |-> pass.dstStageMask,
     dstAccessMask |-> pass.dstAccessMask,
     oldLayout |-> pass.oldLayout,
     newLayout |-> pass.newLayout,
     srcQueueFamilyIndex |-> "VK_QUEUE_FAMILY_IGNORED",
     dstQueueFamilyIndex |-> "VK_QUEUE_FAMILY_IGNORED",
     image |-> image]

\* What pass.recordFunc(cmd, imageIndex) leaves in the command buffer.
RecordFuncCall(pass, image) ==
    [cmd |-> "recordFunc", name |-> pass.name, imageIndex |-> image]

\* One iteration of the loop over m_passes.
recordPass ==
    /\ pc = "passes"
    /\ passIdx <= Len(m_passes)
    /\ LET pass == m_passes[passIdx]
           barrier == IF NeedsBarrier(pass)
                      THEN <<ImageMemoryBarrier2(pass, imageIndex)>> ELSE <<>>
           recorded == IF pass.recordFunc
                       THEN <<RecordFuncCall(pass, imageIndex)>> ELSE <<>>
       IN  cmdBuf' = [cmdBuf EXCEPT ![cmd].cmds = @ \o barrier \o recorded]
    /\ opLog' = Logged("pass")
    /\ passIdx' = passIdx + 1
    /\ UNCHANGED <<deviceVars, swapchainVars, memberVars, semaphore, fence, imageState, acquires,
                   submissions, presents, pc, frameIndex, imageIndex, acquireResult, ghostVars>>

\* Faulty variant: the pass list is consumed by the cycle that recorded it.
endClearsPasses ==
    /\ pc = "passes"
    /\ passIdx > Len(m_passes)
    /\ cmdBuf' = [cmdBuf EXCEPT ![cmd].state = "executable"]
    /\ opLog' = Logged("end")
    /\ pc' = "reset"
    /\ m_passes' = <<>>
    /\ UNCHANGED <<deviceVars, swapchainVars, m_imageCount, m_currentFrame, m_commandBuffers,
                   m_presentCompleteSemaphores, m_renderFinishedSemaphores,
                   m_inFlightFences, semaphore, fence, imageState, acquires,
                   submissions, presents, frameIndex, imageIndex, acquireResult, passIdx, ghostVars>>

\* Faulty variant: the fence is not reset before the submission.
StepAfterEndNoReset == "submit"

\* The statement that follows cmd.end().
StepAfterEnd == "reset"

\* The loop is over: cmd.end(). A recording that cannot be ended leaves the
\* buffer invalid.
end ==
    /\ pc = "passes"
    /\ passIdx > Len(m_passes)
    /\ \/ /\ cmdBuf' = [cmdBuf EXCEPT ![cmd].state = "executable"]
          /\ opLog' = Logged("end")
          /\ pc' = StepAfterEnd
          /\ UNCHANGED <<ghostVars, frameIndex, imageIndex, acquireResult, passIdx>>
       \/ /\ Throws
          /\ cmdBuf' = [cmdBuf EXCEPT ![cmd] = [state |-> "invalid", cmds |-> <<>>]]
    /\ UNCHANGED <<deviceVars, swapchainVars, memberVars, semaphore, fence, imageState, acquires,
                   submissions, presents>>

\* m_device.resetFences(*inFlightFence), or it throws and the fence stays as
\* it is.
resetFences ==
    /\ pc = "reset"
    /\ \/ /\ fence' = [fence EXCEPT ![inFlightFence] = FALSE]
          /\ opLog' = Logged("reset")
          /\ pc' = "submit"
          /\ UNCHANGED <<ghostVars, frameIndex, imageIndex, acquireResult, passIdx>>
       \/ /\ Throws
          /\ UNCHANGED fence
    /\ UNCHANGED <<deviceVars, swapchainVars, memberVars, cmdBuf, semaphore, imageState, acquires,
                   submissions, presents>>

\* Faulty variant: the semaphore to signal is picked by the image index.
SubmitInfoByImage ==
    [call |-> calls,
     waitSemaphore |-> presentComplete,
     waitDstStageMask |-> "ColorAttachmentOutput",
     commandBuffer |-> cmd,
     signalSemaphore |-> m_renderFinishedSemaphores[imageIndex + 1],
     fence |-> inFlightFence,
     state |-> "queued"]

\* vk::SubmitInfo of the call, with the fence handed to submit().
SubmitInfo ==
    [call |-> calls,
     waitSemaphore |-> presentComplete,
     waitDstStageMask |-> "ColorAttachmentOutput",
     commandBuffer |-> cmd,
     signalSemaphore |-> renderFinished,
     fence |-> inFlightFence,
     state |-> "queued"]

submit ==
    /\ pc = "submit"
    /\ \/ /\ submissions' = submissions \cup {SubmitInfo}
          /\ cmdBuf' = [cmdBuf EXCEPT ![cmd].state = "pending"]
          /\ opLog' = Logged("submit")
          /\ pc' = "present"
          /\ UNCHANGED <<ghostVars, frameIndex, imageIndex, acquireResult, passIdx>>
       \/ /\ Throws
          /\ UNCHANGED <<submissions, cmdBuf>>
    /\ UNCHANGED <<deviceVars, swapchainVars, memberVars, semaphore, fence, imageState, acquires,
                   presents>>

\* Faulty variant: the present waits on the semaphore of the acquire.
PresentInfoWaitsOnAcquire(accepted) ==
    [call |-> calls,
     waitSemaphore |-> presentComplete,
     imageIndex |-> imageIndex,
     accepted |-> accepted]

\* vk::PresentInfoKHR of the call.
PresentInfo(accepted) ==
    [call |-> calls,
     waitSemaphore |-> renderFinished,
     imageIndex |-> imageIndex,
     accepted |-> accepted]

\* presentKHR either queues the request, or throws. A request rejected by the
\* presentation engine (out of date, surface lost) still queues its semaphore
\* wait and gives the image back; a lost device queues nothing.
presentKHR ==
    /\ pc = "present"
    /\ \/ /\ presents' = presents \cup {PresentInfo(TRUE)}
          /\ imageState' = [imageState EXCEPT ![imageIndex] = "queued"]
          /\ opLog' = Logged("present")
          /\ pc' = "advance"
          /\ UNCHANGED <<ghostVars, frameIndex, imageIndex, acquireResult, passIdx>>
       \/ /\ Throws
          /\ \/ /\ presents' = presents \cup {PresentInfo(FALSE)}
                /\ imageState' = [imageState EXCEPT ![imageIndex] = "queued"]
             \/ UNCHANGED <<presents, imageState>>
    /\ UNCHANGED <<deviceVars, swapchainVars, memberVars, cmdBuf, semaphore, fence, acquires,
                   submissions>>

\* Faulty variant: the counter stays at its largest value.
IncrementSaturates(counter) ==
    IF counter + 1 = CounterModulus THEN counter ELSE counter + 1

\* Faulty variant: the counter advances by two.
IncrementByTwo(counter) == (counter + 2) % CounterModulus

\* ++m_currentFrame on an unsigned counter of fixed width.
Increment(counter) == (counter + 1) % CounterModulus

\* ++m_currentFrame, and the normal return.
advance ==
    /\ pc = "advance"
    /\ m_currentFrame' = Increment(m_currentFrame)
    /\ opLog' = Logged("advance")
    /\ pc' = "idle"
    /\ result' = "returned"
    /\ okCalls' = okCalls + 1
    /\ LocalsGone
    /\ UNCHANGED <<deviceVars, swapchainVars, m_imageCount, m_passes, m_commandBuffers,
                   m_presentCompleteSemaphores, m_renderFinishedSemaphores,
                   m_inFlightFences, gpuVars, lastOp, initCalls, calls, faults>>

\* ---- the device, running asynchronously ----------------------------------
cpuVars == <<deviceVars, swapchainVars, memberVars, pc, localVars, ghostVars>>

\* The presentation engine makes the acquired image available, after the
\* older present requests of that image have been carried out.
AcquireSignals(a) ==
    /\ a \in acquires
    /\ \A p \in presents : p.imageIndex = a.image => p.call >= a.call
    /\ acquires' = acquires \ {a}
    /\ semaphore' = IF a.sem \in DOMAIN semaphore
                    THEN [semaphore EXCEPT ![a.sem] = TRUE] ELSE semaphore
    /\ UNCHANGED <<cpuVars, cmdBuf, fence, imageState, submissions, presents>>

\* The graphics queue starts a submission once its wait semaphore is signaled;
\* the wait unsignals the semaphore.
GpuStarts(s) ==
    /\ s \in submissions
    /\ s.state = "queued"
    /\ s.waitSemaphore \in DOMAIN semaphore
    /\ semaphore[s.waitSemaphore]
    /\ semaphore' = [semaphore EXCEPT ![s.waitSemaphore] = FALSE]
    /\ submissions' = (submissions \ {s}) \cup {[s EXCEPT !.state = "executing"]}
    /\ UNCHANGED <<cpuVars, cmdBuf, fence, imageState, acquires, presents>>

\* The submission completes: its semaphore and its fence are signaled, and the
\* one-time-submit command buffer leaves the pending state.
GpuCompletes(s) ==
    /\ s \in submissions
    /\ s.state = "executing"
    /\ submissions' = submissions \ {s}
    /\ semaphore' = IF s.signalSemaphore \in DOMAIN semaphore
                    THEN [semaphore EXCEPT ![s.signalSemaphore] = TRUE]
                    ELSE semaphore
    /\ fence' = IF s.fence \in DOMAIN fence
                THEN [fence EXCEPT ![s.fence] = TRUE] ELSE fence
    /\ cmdBuf' = IF /\ s.commandBuffer \in DOMAIN cmdBuf
                    /\ cmdBuf[s.commandBuffer].state = "pending"
                 THEN [cmdBuf EXCEPT ![s.commandBuffer] =
                                          [state |-> "invalid", cmds |-> <<>>]]
                 ELSE cmdBuf
    /\ UNCHANGED <<cpuVars, imageState, acquires>>
    /\ UNCHANGED presents

\* The present queue executes a request once its wait semaphore is signaled;
\* the image goes back to the presentation engine. The requests of a queue
\* are processed in the order they were issued.
PresentExecutes(p) ==
    /\ p \in presents
    /\ \A q \in presents : q.call >= p.call
    /\ p.waitSemaphore \in DOMAIN semaphore
    /\ semaphore[p.waitSemaphore]
    /\ semaphore' = [semaphore EXCEPT ![p.waitSemaphore] = FALSE]
    /\ presents' = presents \ {p}
    /\ imageState' = IF /\ imageState[p.imageIndex] = "queued"
                         /\ \A q \in presents \ {p} : q.imageIndex # p.imageIndex
                      THEN [imageState EXCEPT ![p.imageIndex] = "free"]
                      ELSE imageState
    /\ UNCHANGED <<cpuVars, cmdBuf, fence, acquires, submissions>>

Device ==
    \/ \E a \in acquires : AcquireSignals(a)
    \/ \E s \in submissions : GpuStarts(s)
    \/ \E s \in submissions : GpuCompletes(s)
    \/ \E p \in presents : PresentExecutes(p)

\* ---- the program ---------------------------------------------------------
\* The steps of a cycle that follow the slot selection.
Cycle ==
    \/ waitForFences
    \/ acquireNextImage
    \/ begin
    \/ recordPass
    \/ end
    \/ resetFences
    \/ submit
    \/ presentKHR
    \/ advance

\* The caller has seen no exception so far.
NoException == result # "threw"

\* The application: initRenderGraph() adds its two passes and calls init() once,
\* then the main loop executes frames one at a time. An exception leaves
\* mainLoop() and run(), and main() ends the program: nothing is called after
\* a call that threw.
Next ==
    \/ /\ calls = 0
       /\ Len(m_passes) < Len(ApplicationPasses)
       /\ addPass(ApplicationPasses[Len(m_passes) + 1])
    \/ (initCalls = 0 /\ init)
    \/ (calls < MaxCalls /\ NoException /\ executeFrame)
    \/ Cycle
    \/ Device

Spec == Init /\ [][Next]_vars

\* Any list of passes, added during setup, and a few cycles over it.
NextPasses ==
    \/ /\ calls = 0
       /\ Len(m_passes) < MaxPasses
       /\ \E node \in PassNodes : addPass(node)
    \/ (initCalls = 0 /\ init)
    \/ (calls < MaxCycles /\ NoException /\ executeFrame)
    \/ Cycle
    \/ Device

SpecPasses == Init /\ [][NextPasses]_vars

\* A caller that catches the exception of a failed frame and goes on calling.
NextRetry ==
    \/ /\ calls = 0
       /\ Len(m_passes) < Len(ApplicationPasses)
       /\ addPass(ApplicationPasses[Len(m_passes) + 1])
    \/ (initCalls = 0 /\ init)
    \/ (calls < MaxCalls /\ executeFrame)
    \/ Cycle
    \/ Device

SpecRetry == Init /\ [][NextRetry]_vars

\* The retrying caller under the same fair schedule.
SpecRetryFair == SpecRetry /\ WF_vars(Cycle) /\ WF_vars(Device)

\* ---- the application around the graph (Source.cpp) -----------------------
\* glfwWindowShouldClose(window) is true at the top of the loop: mainLoop()
\* leaves the loop and calls device.waitIdle().
windowShouldClose ==
    /\ pc = "idle"
    /\ initCalls >= 1
    /\ NoException
    /\ pc' = "waitIdle"
    /\ UNCHANGED <<deviceVars, swapchainVars, memberVars, gpuVars, localVars, ghostVars>>

\* device.waitIdle() returns once no queue has work left; run() goes on to
\* cleanup().
waitIdle ==
    /\ pc = "waitIdle"
    /\ submissions = {}
    /\ presents = {}
    /\ pc' = "cleanup"
    /\ UNCHANGED <<deviceVars, swapchainVars, memberVars, gpuVars, localVars, ghostVars>>

\* The HelloTriangleApplication object of main() goes out of scope, after
\* run() returned or while an exception unwinds the stack: the unique_ptr
\* deletes the RenderGraph, whose vk::raii members destroy the command
\* buffers, semaphores and fences at once. Nothing waits for the device here.
destroyRenderGraph ==
    /\ \/ pc = "cleanup"
       \/ pc = "idle" /\ ~NoException
    /\ pc' = "destroyed"
    /\ m_passes' = <<>>
    /\ m_commandBuffers' = <<>>
    /\ m_presentCompleteSemaphores' = <<>>
    /\ m_renderFinishedSemaphores' = <<>>
    /\ m_inFlightFences' = <<>>
    /\ cmdBuf' = [h \in {} |-> NewCommandBuffer]
    /\ semaphore' = [h \in {} |-> FALSE]
    /\ fence' = [h \in {} |-> FALSE]
    /\ UNCHANGED <<deviceVars, swapchainVars, m_imageCount, m_currentFrame, imageState, acquires,
                   submissions, presents, localVars, ghostVars>>

\* The application from its start to the end of main().
NextApp ==
    \/ Next
    \/ windowShouldClose
    \/ waitIdle
    \/ destroyRenderGraph

SpecApp == Init /\ [][NextApp]_vars

\* A caller that calls init() again on the same RenderGraph: init() has no
\* test of an earlier call.
NextReinit ==
    \/ /\ calls = 0
       /\ Len(m_passes) < Len(ApplicationPasses)
       /\ addPass(ApplicationPasses[Len(m_passes) + 1])
    \/ (initCalls < MaxInits /\ NoException /\ init)
    \/ (calls < MaxCalls /\ NoException /\ executeFrame)
    \/ Cycle
    \/ Device

SpecReinit == Init /\ [][NextReinit]_vars

\* A caller that goes on adding passes between frames: addPass() has no test
\* of the state of the graph, so the call is possible whenever no frame runs.
NextLate ==
    \/ /\ Len(m_passes) < Len(ApplicationPasses)
       /\ NoException
       /\ addPass(ApplicationPasses[Len(m_passes) + 1])
    \/ (initCalls = 0 /\ init)
    \/ (calls < MaxCalls /\ NoException /\ executeFrame)
    \/ Cycle
    \/ Device

SpecLate == Init /\ [][NextLate]_vars

\* The graph of the application after init() and after so many frames that the
\* counter is a few increments away from its largest value: every slot has been
\* used, the device is idle, and no frame is running. calls, okCalls and faults
\* count from this state on.
InitWrap ==
    /\ numImages \in 1..WrapSlots
    /\ acquiresAhead \in BOOLEAN
    /\ suboptimal = FALSE
    /\ m_imageCount = numImages
    /\ m_currentFrame \in (CounterModulus - WrapCalls)..(CounterModulus - 1)
    /\ m_passes = ApplicationPasses
    /\ m_commandBuffers = [k \in 1..numImages |-> CmdHandle(1, k - 1)]
    /\ m_presentCompleteSemaphores = [k \in 1..numImages |-> PresentCompleteHandle(1, k - 1)]
    /\ m_renderFinishedSemaphores = [k \in 1..numImages |-> RenderFinishedHandle(1, k - 1)]
    /\ m_inFlightFences = [k \in 1..numImages |-> FenceHandle(1, k - 1)]
    /\ cmdBuf = [h \in {CmdHandle(1, i) : i \in 0..(numImages - 1)}
                    |-> [state |-> "invalid", cmds |-> <<>>]]
    /\ semaphore = [h \in {PresentCompleteHandle(1, i) : i \in 0..(numImages - 1)}
                          \cup {RenderFinishedHandle(1, i) : i \in 0..(numImages - 1)}
                        |-> FALSE]
    /\ fence = [h \in {FenceHandle(1, i) : i \in 0..(numImages - 1)} |-> TRUE]
    /\ imageState = [i \in 0..(numImages - 1) |-> "free"]
    /\ acquires = {}
    /\ submissions = {}
    /\ presents = {}
    /\ pc = "idle"
    /\ frameIndex = 0
    /\ imageIndex = 0
    /\ acquireResult = "none"
    /\ passIdx = 1
    /\ opLog = <<>>
    /\ lastOp = "none"
    /\ result = "none"
    /\ initCalls = 1
    /\ calls = 0
    /\ faults = 0
    /\ okCalls = 0
    /\ OneFamilyDevice

\* The main loop goes on from there.
NextWrap ==
    \/ (calls < WrapCalls /\ NoException /\ executeFrame)
    \/ Cycle
    \/ Device

SpecWrap == InitWrap /\ [][NextWrap]_vars

\* The window is resized, or the surface changes in another way that leaves
\* the swapchain usable: from then on acquireNextImage reports eSuboptimalKHR.
\* The application never recreates the swapchain.
SurfaceChanges ==
    /\ ~suboptimal
    /\ suboptimal' = TRUE
    /\ UNCHANGED <<deviceVars, numImages, acquiresAhead, memberVars, gpuVars, pc,
                   localVars,
                   ghostVars>>

\* The application while the surface may change under it.
NextSuboptimal ==
    \/ Next
    \/ SurfaceChanges

SpecSuboptimal == Init /\ [][NextSuboptimal]_vars

\* The application under a fair schedule: the thread inside executeFrame()
\* keeps running whenever its next step is possible, and the device keeps
\* working: every acquire is signaled, every submission is started and
\* completed, and every present request is carried out.
SpecFair == Spec /\ WF_vars(Cycle) /\ WF_vars(Device)

TypeOK ==
    /\ numImages \in 0..MaxImages
    /\ acquiresAhead \in BOOLEAN
    /\ suboptimal \in BOOLEAN
    /\ acquireResult \in {"none", "eSuccess", "eSuboptimalKHR"}
    /\ m_imageCount \in 0..MaxImages
    /\ m_currentFrame \in 0..(CounterModulus - 1)
    /\ Len(m_passes) <= MaxPasses
    /\ pc \in {"idle", "wait", "acquire", "begin", "passes", "reset", "submit",
               "present", "advance", "waitIdle", "cleanup", "destroyed"}
              \cup UndefinedOutcomes
    /\ result \in {"none", "returned", "threw"}
    /\ Len(queueFamilyProperties) \in 1..MaxFamilies
    /\ graphicsFamily \in 0..(MaxFamilies - 1)
    /\ presentFamily \in 0..(MaxFamilies - 1)
    /\ deviceQueues \subseteq 0..(MaxFamilies - 1)
    /\ graphicsQueue \in {<<>>} \cup {Queue(f) : f \in 0..(MaxFamilies - 1)}
    /\ presentQueue \in {<<>>} \cup {Queue(f) : f \in 0..(MaxFamilies - 1)}
    /\ setup \in {"createLogicalDevice", "done", "threw", "trap"}
    /\ \A i \in DOMAIN imageState : imageState[i] \in {"free", "acquired", "queued"}

\* ---- claims ---------------------------------------------------------------
Slots == 0..(m_imageCount - 1)

\* The fence has been waited on and not yet reset: from the return of the wait
\* up to resetFences.
BetweenWaitAndReset == pc \in {"acquire", "begin", "passes", "reset"}

\* C1: the CPU never begins recording into a slot's command buffer while an
\* earlier submission of that command buffer is still unfinished on the GPU:
\* a command buffer named by an unfinished submission is in the pending state
\* (not re-begun), and from cmd.begin to the submit no unfinished submission
\* names the slot's command buffer.
C1_NoRecordingWhilePending ==
    /\ \A s \in submissions : cmdBuf[s.commandBuffer].state = "pending"
    /\ pc \in {"begin", "passes", "reset", "submit"} =>
           \A s \in submissions : s.commandBuffer # cmd

\* A reused slot is being recorded while another slot's submission is in flight.
C1_Witness ==
    /\ pc = "passes"
    /\ okCalls >= m_imageCount
    /\ cmdBuf[cmd].state = "recording"
    /\ submissions # {}

\* C2: in every executeFrame() call the wait on the slot's fence comes first,
\* and from the return of the wait until the fence is reset (so whenever
\* recording starts or goes on) the slot's fence is signaled.
C2_FenceSignaledWhenRecording ==
    /\ (InCall /\ pc # "wait") => (opLog # <<>> /\ opLog[1] = "wait")
    /\ BetweenWaitAndReset => fence[inFlightFence]
    /\ \A h \in DOMAIN cmdBuf :
           cmdBuf[h].state = "recording" =>
               /\ InCall
               /\ h = cmd
               /\ fence[inFlightFence]

\* Recording starts on a slot whose fence was reset by an earlier cycle and has
\* been signaled again by the completion of that cycle's submission.
C2_Witness ==
    /\ pc = "begin"
    /\ m_imageCount = 2
    /\ okCalls = 2
    /\ fence[inFlightFence]

\* C3: the number of frames in flight (submissions whose GPU execution has not
\* completed) is at most m_imageCount, each slot having at most one of them.
C3_InFlightAtMostSlotCount ==
    /\ Cardinality(submissions) <= m_imageCount
    /\ \A s1, s2 \in submissions : s1.fence = s2.fence => s1 = s2

\* As many frames in flight as there are slots.
C3_Witness ==
    /\ m_imageCount = 2
    /\ Cardinality(submissions) = 2

C4_SlotFollowsCompletedCycles ==
    InCall =>
        /\ frameIndex = okCalls % m_imageCount
        /\ faults = 0 => frameIndex = (calls - 1) % m_imageCount
        /\ inFlightFence = FenceHandle(initCalls, frameIndex)
        /\ presentComplete = PresentCompleteHandle(initCalls, frameIndex)
        /\ renderFinished = RenderFinishedHandle(initCalls, frameIndex)
        /\ cmd = CmdHandle(initCalls, frameIndex)

C5_UninitializedRejected ==
    (lastOp = "executeFrame" /\ m_imageCount = 0) =>
        (pc = "idle" /\ result = "threw")

\* C6: after init(), exactly slotCount fences exist and all of them are signaled.
C6_FencesAfterInit ==
    (lastOp = "init" /\ result = "returned") =>
        /\ m_imageCount = numImages
        /\ m_imageCount >= 1
        /\ Len(m_inFlightFences) = m_imageCount
        /\ DOMAIN fence = {m_inFlightFences[k] : k \in 1..m_imageCount}
        /\ Cardinality(DOMAIN fence) = m_imageCount
        /\ \A h \in DOMAIN fence : fence[h]

C6_Witness ==
    /\ lastOp = "init"
    /\ result = "returned"
    /\ Cardinality(DOMAIN fence) = 2

\* C7: after init(), every slot 0..slotCount-1 has exactly one command buffer,
\* one presentation-ready semaphore and one render-complete semaphore, and both
\* semaphores are unsignaled.
C7_SlotObjectsAfterInit ==
    (lastOp = "init" /\ result = "returned") =>
        /\ m_imageCount = numImages
        /\ Len(m_commandBuffers) = m_imageCount
        /\ Len(m_presentCompleteSemaphores) = m_imageCount
        /\ Len(m_renderFinishedSemaphores) = m_imageCount
        /\ Cardinality(DOMAIN cmdBuf) = m_imageCount
        /\ Cardinality(DOMAIN semaphore) = 2 * m_imageCount
        /\ \A i \in Slots :
               /\ m_commandBuffers[i + 1] \in DOMAIN cmdBuf
               /\ m_presentCompleteSemaphores[i + 1] \in DOMAIN semaphore
               /\ m_renderFinishedSemaphores[i + 1] \in DOMAIN semaphore
               /\ ~semaphore[m_presentCompleteSemaphores[i + 1]]
               /\ ~semaphore[m_renderFinishedSemaphores[i + 1]]
        /\ \A i, j \in Slots :
               i # j =>
                   /\ m_commandBuffers[i + 1] # m_commandBuffers[j + 1]
                   /\ m_presentCompleteSemaphores[i + 1] # m_presentCompleteSemaphores[j + 1]
                   /\ m_renderFinishedSemaphores[i + 1] # m_renderFinishedSemaphores[j + 1]

C7_Witness ==
    /\ lastOp = "init"
    /\ result = "returned"
    /\ Len(m_commandBuffers) = 2
    /\ Cardinality(DOMAIN semaphore) = 4

\* C8: init() with a swapchain of zero images throws, and allocates no command
\* buffer, semaphore or fence.
C8_ZeroImagesRejected ==
    (lastOp = "init" /\ numImages = 0) =>
        /\ result = "threw"
        /\ DOMAIN cmdBuf = {}
        /\ DOMAIN semaphore = {}
        /\ DOMAIN fence = {}
        /\ m_commandBuffers = <<>>
        /\ m_presentCompleteSemaphores = <<>>
        /\ m_renderFinishedSemaphores = <<>>
        /\ m_inFlightFences = <<>>

C8_Witness ==
    /\ lastOp = "init"
    /\ numImages = 0
    /\ result = "threw"

\* What identifies a recorded command for the order of recording: a barrier by
\* its transition, a callback by its pass.
Mark(c) ==
    IF c.cmd = "pipelineBarrier2"
    THEN <<"barrier", c.oldLayout, c.newLayout>>
    ELSE <<"callback", c.name>>

Marks(cmds) == [k \in 1..Len(cmds) |-> Mark(cmds[k])]

\* The marks C9 asks for, pass by pass in the order of the list: the barrier
\* of a pass, when its layouts differ, directly followed by its callback, when
\* it has one.
RECURSIVE ExpectedMarks(_)
ExpectedMarks(passes) ==
    IF passes = <<>> THEN <<>>
    ELSE LET n == Len(passes)
             last == passes[n]
         IN  ExpectedMarks(SubSeq(passes, 1, n - 1))
                 \o (IF last.oldLayout = last.newLayout THEN <<>>
                     ELSE <<<<"barrier", last.oldLayout, last.newLayout>>>>)
                 \o (IF last.recordFunc THEN <<<<"callback", last.name>>>>
                     ELSE <<>>)

\* C9: in every cycle the passes are processed in the order they were added; a
\* barrier is recorded immediately before a pass's callback if and only if the
\* pass has oldLayout # newLayout, and a pass with equal layouts records none.
C9_PassesInOrderWithBarriers ==
    /\ pc = "passes" =>
           Marks(cmdBuf[cmd].cmds) = ExpectedMarks(SubSeq(m_passes, 1, passIdx - 1))
    /\ pc \in {"reset", "submit"} =>
           Marks(cmdBuf[cmd].cmds) = ExpectedMarks(m_passes)
    /\ \A h \in DOMAIN cmdBuf :
           cmdBuf[h].state \in {"executable", "pending"} =>
               Marks(cmdBuf[h].cmds) = ExpectedMarks(m_passes)

\* The second cycle has recorded a pass without a transition followed by a
\* pass with a transition and a callback.
C9_Witness ==
    /\ pc = "reset"
    /\ okCalls = 1
    /\ Len(m_passes) = 2
    /\ m_passes[1].oldLayout = m_passes[1].newLayout
    /\ m_passes[1].recordFunc
    /\ m_passes[2] = MainPass
    /\ Len(cmdBuf[cmd].cmds) = 3

\* The calls of a cycle that returns normally, in the order C10 states.
ExpectedOps ==
    <<"wait", "acquire", "begin">>
        \o [k \in 1..Len(m_passes) |-> "pass"]
        \o <<"end", "reset", "submit", "present", "advance">>

IsPrefix(a, b) == Len(a) <= Len(b) /\ a = SubSeq(b, 1, Len(a))

\* C10: in each executeFrame() call that returns normally the operations occur
\* in the order wait, acquire, begin, the passes, end, reset, submit, present,
\* increment; the fence is reset only after the recording has ended and before
\* the submission that will signal it.
C10_OrderOfOperations ==
    /\ (lastOp = "executeFrame" /\ result = "returned") => opLog = ExpectedOps
    /\ InCall => IsPrefix(opLog, ExpectedOps)
    /\ pc = "submit" =>
           /\ ~fence[inFlightFence]
           /\ cmdBuf[cmd].state = "executable"
           /\ \A s \in submissions : s.fence # inFlightFence

C10_Witness ==
    /\ lastOp = "executeFrame"
    /\ result = "returned"
    /\ Len(m_passes) = 2
    /\ okCalls = 2

\* The slot a per-slot object was created for.
SlotOf(handle) == handle[3]

\* The steps of a call that follow its acquire, its submit and its present.
AfterAcquire == {"begin", "passes", "reset", "submit", "present", "advance"}
AfterSubmit == {"present", "advance"}
AfterPresent == {"advance"}

\* C11: in every cycle all synchronization objects are those of the one
\* selected slot: the acquire signals the slot's presentation-ready semaphore,
\* the submission waits on that semaphore, executes the slot's command buffer
\* and signals the slot's render-complete semaphore and the slot's fence, and
\* the present waits on that render-complete semaphore; no object of another
\* slot is used.
C11_OneSlotPerCycle ==
    /\ pc \in AfterAcquire =>
           \A a \in acquires :
               a.call = calls =>
                   /\ a.sem = PresentCompleteHandle(initCalls, frameIndex)
                   /\ a.image = imageIndex
    /\ pc \in AfterSubmit =>
           \A s \in submissions :
               s.call = calls =>
                   /\ s.waitSemaphore = PresentCompleteHandle(initCalls, frameIndex)
                   /\ s.signalSemaphore = RenderFinishedHandle(initCalls, frameIndex)
                   /\ s.fence = FenceHandle(initCalls, frameIndex)
                   /\ s.commandBuffer = CmdHandle(initCalls, frameIndex)
    /\ pc \in AfterPresent =>
           \A p \in presents :
               p.call = calls =>
                   p.waitSemaphore = RenderFinishedHandle(initCalls, frameIndex)
    /\ \A s \in submissions :
           /\ s.waitSemaphore = PresentCompleteHandle(initCalls, SlotOf(s.fence))
           /\ s.signalSemaphore = RenderFinishedHandle(initCalls, SlotOf(s.fence))
           /\ s.fence = FenceHandle(initCalls, SlotOf(s.fence))
           /\ s.commandBuffer = CmdHandle(initCalls, SlotOf(s.fence))
           /\ \A p \in presents :
                  p.call = s.call => p.waitSemaphore = s.signalSemaphore

\* The second cycle runs on slot 1 with image 0, and both its submission and
\* its present are still in flight.
C11_Witness ==
    /\ pc = "advance"
    /\ frameIndex = 1
    /\ imageIndex = 0
    /\ \E s \in submissions : s.call = calls
    /\ \E p \in presents : p.call = calls

\* The graphics queue starts executing submission s in this step.
StartsExecuting(s) ==
    /\ s \in submissions
    /\ s.state = "queued"
    /\ [s EXCEPT !.state = "executing"] \in submissions'

\* The presentation engine carries out request p in this step.
TakesEffect(p) == p \in presents /\ p \notin presents'

\* C12: the GPU starts executing a cycle's command buffer only after the
\* acquisition of the cycle's image has completed, and the presentation of the
\* image takes effect only after the GPU has completed that command buffer: no
\* image is presented while the commands of its cycle are queued or executing.
C12_AcquireThenExecuteThenPresent ==
    [][/\ \A s \in submissions :
              StartsExecuting(s) =>
                  \A a \in acquires : a.sem # s.waitSemaphore
       /\ \A p \in presents :
              TakesEffect(p) =>
                  \A s \in submissions : s.call # p.call]_vars

\* A present request waits while the commands of its cycle are executing.
C12_Witness ==
    \E s \in submissions, p \in presents :
        /\ s.call = p.call
        /\ s.state = "executing"
        /\ p.accepted
        /\ imageState[p.imageIndex] = "queued"

\* acquireNextImage(UINT64_MAX, ...) has no image to hand out and waits.
AcquireBlocks ==
    /\ pc = "acquire"
    /\ \A i \in DOMAIN imageState : ~Available(i)

C14_FirstCyclesPassTheWait ==
    (pc = "wait" /\ calls <= m_imageCount) =>
        /\ fence[inFlightFence]
        /\ cmdBuf[cmd].state = "initial"
        /\ \A s \in submissions : s.fence # inFlightFence /\ s.commandBuffer # cmd

\* The second call stands at the fence wait of slot 1 while the submission of
\* the first call, on slot 0, is still in flight.
C14_Witness ==
    /\ pc = "wait"
    /\ m_imageCount = 2
    /\ calls = 2
    /\ frameIndex = 1
    /\ \E s \in submissions : s.call = 1

\* The positions of the commands of one kind in a command buffer.
CommandsOfKind(cmds, kind) == {k \in 1..Len(cmds) : cmds[k].cmd = kind}

\* The passes of the list that change the layout, and those with a callback.
TransitionPasses == {i \in 1..Len(m_passes) : m_passes[i].oldLayout # m_passes[i].newLayout}
CallbackPasses == {i \in 1..Len(m_passes) : m_passes[i].recordFunc}

\* C15: a pass whose record callback is absent still records its barrier when
\* oldLayout differs from newLayout and contributes no other command, and the
\* cycle continues with the next pass.
C15_PassWithoutCallback ==
    /\ (pc = "passes" /\ passIdx > 1 /\ ~m_passes[passIdx - 1].recordFunc) =>
           LET pass == m_passes[passIdx - 1]
               cmds == cmdBuf[cmd].cmds
               before == {i \in 1..(passIdx - 2) : i \in TransitionPasses}
               callbacks == {i \in 1..(passIdx - 2) : i \in CallbackPasses}
           IN  IF pass.oldLayout # pass.newLayout
               THEN /\ Len(cmds) = Cardinality(before) + Cardinality(callbacks) + 1
                    /\ cmds[Len(cmds)] = ImageMemoryBarrier2(pass, imageIndex)
               ELSE Len(cmds) = Cardinality(before) + Cardinality(callbacks)
    /\ \A h \in DOMAIN cmdBuf :
           cmdBuf[h].state \in {"executable", "pending"} =>
               LET cmds == cmdBuf[h].cmds
               IN  /\ Cardinality(CommandsOfKind(cmds, "pipelineBarrier2"))
                          = Cardinality(TransitionPasses)
                   /\ Cardinality(CommandsOfKind(cmds, "recordFunc"))
                          = Cardinality(CallbackPasses)
                   /\ Len(cmds) = Cardinality(TransitionPasses)
                                      + Cardinality(CallbackPasses)
                   /\ \A k \in CommandsOfKind(cmds, "recordFunc") :
                          \E i \in CallbackPasses : m_passes[i].name = cmds[k].name
    /\ pc \in {"reset", "submit", "present", "advance"} =>
           Cardinality({k \in 1..Len(opLog) : opLog[k] = "pass"}) = Len(m_passes)

\* A pass with a transition and no callback came first: its barrier is followed
\* by the barrier and the callback of the next pass.
C15_Witness ==
    /\ pc = "reset"
    /\ m_passes = <<PresentTransition, MainPass>>
    /\ Len(cmdBuf[cmd].cmds) = 3
    /\ cmdBuf[cmd].cmds[1] = ImageMemoryBarrier2(PresentTransition, imageIndex)
    /\ cmdBuf[cmd].cmds[3] = RecordFuncCall(MainPass, imageIndex)

\* The calls of a cycle over an empty pass list.
EmptyListOps ==
    <<"wait", "acquire", "begin", "end", "reset", "submit", "present", "advance">>

\* C16: with an empty pass list every one of the consecutive executeFrame()
\* calls still performs the fence wait, the acquire, begin and end of the
\* recording, the fence reset, the submit and the present, records no barrier
\* and invokes no callback, and advances the frame counter by one. (A call
\* stops short only where one of its device operations throws.)
C16_EmptyPassList ==
    m_passes = <<>> =>
        /\ InCall => IsPrefix(opLog, EmptyListOps)
        /\ (lastOp = "executeFrame" /\ result = "returned") =>
               /\ opLog = EmptyListOps
               /\ m_currentFrame = calls
        /\ (lastOp = "executeFrame" /\ result = "threw") =>
               \E k \in 1..6 : opLog = SubSeq(EmptyListOps, 1, k)
        /\ pc = "advance" => m_currentFrame = calls - 1
        /\ \A h \in DOMAIN cmdBuf : cmdBuf[h].cmds = <<>>
        /\ \A s \in submissions : cmdBuf[s.commandBuffer].state = "pending"

\* Three consecutive cycles over the empty list have returned.
C16_Witness ==
    /\ m_passes = <<>>
    /\ lastOp = "executeFrame"
    /\ result = "returned"
    /\ calls = 3
    /\ m_currentFrame = 3

\* The commands that the two passes of the scenario record for an image:
\* barrier A, callback A, barrier B.
ScenarioCommands(image) ==
    <<ImageMemoryBarrier2(MainPass, image),
      RecordFuncCall(MainPass, image),
      ImageMemoryBarrier2(PresentTransition, image)>>

\* C17: with two slots, pass A (Undefined to ColorAttachmentOptimal, with a
\* callback) and pass B (ColorAttachmentOptimal to PresentSrcKHR, without),
\* three executeFrame() calls use the slots 0, 1, 0 in that order, each records
\* barrier A, callback A, barrier B in that order, and the third call begins
\* recording only after the fence of slot 0 was signaled by the completion of
\* the first call's submission.
C17_TwoSlotsThreeCalls ==
    (m_imageCount = 2 /\ m_passes = <<MainPass, PresentTransition>> /\ calls <= 3) =>
        /\ InCall => frameIndex = <<0, 1, 0>>[calls]
        /\ pc \in {"reset", "submit"} =>
               cmdBuf[cmd].cmds = ScenarioCommands(imageIndex)
        /\ \A s \in submissions :
               /\ SlotOf(s.commandBuffer) = <<0, 1, 0>>[s.call]
               /\ \E i \in DOMAIN imageState :
                      cmdBuf[s.commandBuffer].cmds = ScenarioCommands(i)
        /\ (calls = 3 /\ pc \in {"acquire", "begin"}) =>
               /\ fence[FenceHandle(initCalls, 0)]
               /\ cmdBuf[CmdHandle(initCalls, 0)].state = "invalid"
        /\ (calls = 3 /\ pc \in {"acquire", "begin", "passes", "reset",
                                 "submit"}) =>
               \A s \in submissions : s.call # 1 /\ s.fence # inFlightFence

\* The third call has recorded its three commands into the buffer of slot 0
\* while the submission of the second call is still in flight.
C17_Witness ==
    /\ m_imageCount = 2
    /\ m_passes = <<MainPass, PresentTransition>>
    /\ calls = 3
    /\ pc = "reset"
    /\ frameIndex = 0
    /\ cmdBuf[cmd].cmds = ScenarioCommands(imageIndex)
    /\ \E s \in submissions : s.call = 2

\* The last call of executeFrame() threw.
FrameThrew == lastOp = "executeFrame" /\ result = "threw"

\* The slot of the last call, when it threw.
FailedSlot == m_currentFrame % m_imageCount

\* C18: if the acquire, the submit or the present of a cycle fails,
\* executeFrame() stops at that step and reports the failure to its caller; it
\* performs none of the later steps of the cycle and undoes none of the earlier
\* ones: a fence already reset stays unsignaled until its submission completes,
\* a submission already made stays submitted.
C18_FailureStopsTheCycle ==
    /\ (lastOp = "executeFrame" /\ pc = "idle" /\ opLog # ExpectedOps) =>
           result = "threw"
    /\ FrameThrew =>
           LET n == Len(m_passes)
               f == FenceHandle(initCalls, FailedSlot)
               c == CmdHandle(initCalls, FailedSlot)
               submitted == {s \in submissions : s.call = calls}
               presented == {p \in presents : p.call = calls}
               acquired == {i \in DOMAIN imageState : imageState[i] = "acquired"}
           IN  /\ pc = "idle"
               /\ m_currentFrame = okCalls
               /\ opLog \in {SubSeq(ExpectedOps, 1, k) :
                                 k \in {1, 2, n + 3, n + 4, n + 5, n + 6}}
               /\ Len(opLog) = 1 =>
                      /\ fence[f]
                      /\ cmdBuf[c].state \in {"initial", "invalid"}
                      /\ acquired = {} /\ submitted = {} /\ presented = {}
                      /\ \A a \in acquires :
                             a.sem # PresentCompleteHandle(initCalls, FailedSlot)
               /\ Len(opLog) = n + 5 =>
                      /\ ~fence[f]
                      /\ cmdBuf[c].state = "executable"
                      /\ Len(cmdBuf[c].cmds) = Cardinality(TransitionPasses)
                                                   + Cardinality(CallbackPasses)
                      /\ Cardinality(acquired) = 1
                      /\ submitted = {} /\ presented = {}
               /\ Len(opLog) = n + 6 =>
                      /\ fence[f] <=> submitted = {}
                      /\ cmdBuf[c].state =
                             IF submitted = {} THEN "invalid" ELSE "pending"
                      /\ \A p \in presented : ~p.accepted

\* The present of the second cycle threw; the submission of that cycle is
\* still executing and its fence, reset before the submit, is unsignaled.
C18_Witness ==
    /\ FrameThrew
    /\ calls = 2
    /\ opLog[Len(opLog)] = "submit"
    /\ ~fence[FenceHandle(initCalls, FailedSlot)]
    /\ \E s \in submissions : s.call = calls /\ s.state = "executing"

\* How often the current call has carried out an operation.
Issued(op) == Cardinality({k \in 1..Len(opLog) : opLog[k] = op})

\* C19: each executeFrame() call issues at most one acquire, at most one
\* submission, of exactly one command buffer, and at most one present; exactly
\* one of each when it returns normally; an operation that failed is never
\* issued again.
C19_OneAcquireSubmitPresent ==
    lastOp = "executeFrame" =>
        /\ \A op \in {"acquire", "submit", "present"} : Issued(op) <= 1
        /\ (pc = "idle" /\ result = "returned") =>
               \A op \in {"acquire", "submit", "present"} : Issued(op) = 1
        /\ Cardinality({s \in submissions : s.call = calls}) <= 1
        /\ Cardinality({p \in presents : p.call = calls}) <= 1
        /\ \A s \in submissions : s.commandBuffer \in DOMAIN cmdBuf
        /\ InCall => faults = 0
        /\ FrameThrew =>
               /\ pc = "idle"
               /\ faults = 1
               /\ Issued("advance") = 0
               /\ Issued("present") = 0
               /\ Len(opLog) = 1 => Issued("acquire") = 0
               /\ Len(opLog) = Len(m_passes) + 5 => Issued("submit") = 0

\* The second call has returned with its one submission and its one present
\* request still in flight.
C19_Witness ==
    /\ lastOp = "executeFrame"
    /\ pc = "idle"
    /\ result = "returned"
    /\ calls = 2
    /\ \E s \in submissions : s.call = 2
    /\ \E p \in presents : p.call = 2

\* C20: addPass(node) appends node at the end of the pass list and leaves every
\* existing entry at its position; it changes nothing else (the frame counter,
\* the slot count and all slot resources stay as they are) and it validates
\* nothing: every node is accepted, also one that is already in the list.
C20_AddPassAppends ==
    /\ [](pc = "idle" => \A node \in PassNodes : ENABLED addPass(node))
    /\ [][m_passes' # m_passes =>
              /\ \E node \in PassNodes : m_passes' = Append(m_passes, node)
              /\ Len(m_passes') = Len(m_passes) + 1
              /\ \A i \in 1..Len(m_passes) : m_passes'[i] = m_passes[i]
              /\ result' = "returned"
              /\ UNCHANGED <<m_currentFrame, m_imageCount, m_commandBuffers,
                             m_presentCompleteSemaphores,
                             m_renderFinishedSemaphores, m_inFlightFences,
                             gpuVars>>]_vars

\* After init(), a node without transition and without callback was added
\* behind one like it.
C20_Witness ==
    /\ lastOp = "addPass"
    /\ m_imageCount = 2
    /\ m_passes = <<RenderPassNode, RenderPassNode>>
    /\ DOMAIN fence # {}

\* A step taken while executeFrame() runs, from its entry to its return or throw.
FrameStep == pc # "idle" \/ pc' # "idle"

\* C21: executeFrame() leaves unchanged the pass list (length, order and
\* contents), the slot count, the cached swapchain image array and the set of
\* slot resources: it creates and destroys no command buffer, semaphore or
\* fence, and only reuses those of the selected slot.
C21_FrameKeepsListAndResources ==
    [][FrameStep =>
           /\ m_passes' = m_passes
           /\ m_imageCount' = m_imageCount
           /\ numImages' = numImages
           /\ DOMAIN imageState' = DOMAIN imageState
           /\ UNCHANGED <<m_commandBuffers, m_presentCompleteSemaphores,
                          m_renderFinishedSemaphores, m_inFlightFences>>
           /\ DOMAIN cmdBuf' = DOMAIN cmdBuf
           /\ DOMAIN semaphore' = DOMAIN semaphore
           /\ DOMAIN fence' = DOMAIN fence
           /\ \A h \in DOMAIN cmdBuf :
                  cmdBuf'[h] # cmdBuf[h] =>
                      \/ h = CmdHandle(initCalls, frameIndex)
                      \/ \E s \in submissions : s.commandBuffer = h
           /\ \A h \in DOMAIN fence :
                  (fence[h] /\ ~fence'[h]) => h = FenceHandle(initCalls, frameIndex)]_vars

\* The second cycle has gone through all its steps on slot 1, with both passes
\* of the application in the list.
C21_Witness ==
    /\ pc = "advance"
    /\ calls = 2
    /\ frameIndex = 1
    /\ m_passes = ApplicationPasses
    /\ Cardinality(DOMAIN fence) = 2

\* The command buffers that hold a finished recording.
Recorded == {h \in DOMAIN cmdBuf : cmdBuf[h].state \in {"executable", "pending"}}

\* C22: once the first executeFrame() has run, the pass list no longer changes:
\* addPass takes effect only during setup, so every cycle processes the same
\* sequence of passes as the first cycle.
C22_ListFixedAfterFirstFrame ==
    /\ calls >= 1 => lastOp # "addPass"
    /\ \A g, h \in Recorded : Marks(cmdBuf[g].cmds) = Marks(cmdBuf[h].cmds)

\* C22, as far as it holds: addPass() appends whenever it is called, also
\* after the first executeFrame(); each cycle processes the list as it is when
\* the cycle runs, so a later cycle processes the sequence of an earlier cycle
\* followed by the passes added in between.
C22_CycleProcessesCurrentList ==
    /\ pc \in {"reset", "submit"} =>
           Marks(cmdBuf[cmd].cmds) = ExpectedMarks(m_passes)
    /\ \A h \in Recorded :
           \E k \in 0..Len(m_passes) :
               Marks(cmdBuf[h].cmds) = ExpectedMarks(SubSeq(m_passes, 1, k))
    /\ IsPrefix(m_passes, ApplicationPasses)

\* The first cycle recorded one pass and is still pending; the second pass was
\* added after it, and the second cycle has recorded both.
C22_Witness ==
    /\ pc = "reset"
    /\ calls = 2
    /\ lastOp = "executeFrame"
    /\ m_passes = ApplicationPasses
    /\ Len(cmdBuf[cmd].cmds) = 3
    /\ \E h \in Recorded : Len(cmdBuf[h].cmds) = 2

\* The step in which a cycle increments the counter and returns.
Returns == pc = "advance" /\ pc' = "idle"

\* C23: with the frame counter held in a fixed-width unsigned integer that
\* wraps to 0 on overflow, the wrap does not disturb the slot selection: for
\* every slot count, the cycle that follows the wrap selects the successor
\* (mod slotCount) of the slot selected by the cycle before it.
C23_WrapKeepsRoundRobin ==
    [][Returns =>
           FrameIndex(m_currentFrame', m_imageCount)
               = (frameIndex + 1) % m_imageCount]_vars

\* C23, as far as it holds: the counter wraps from its largest value to 0, and
\* the cycle after the wrap selects slot 0; that is the successor of the slot
\* before the wrap exactly when the slot count divides the number of counter
\* values (2^64 for the real counter: slot counts 1, 2, 4, ...). Away from the
\* wrap every cycle selects the successor of the slot of the cycle before it.
C23_WrapSelectsSlotZero ==
    [][Returns =>
           /\ m_currentFrame' = (m_currentFrame + 1) % CounterModulus
           /\ m_currentFrame' = 0 =>
                  /\ m_currentFrame = CounterModulus - 1
                  /\ FrameIndex(m_currentFrame', m_imageCount) = 0
           /\ (m_currentFrame' # 0 \/ CounterModulus % m_imageCount = 0) =>
                  FrameIndex(m_currentFrame', m_imageCount)
                      = (frameIndex + 1) % m_imageCount]_vars

\* With three slots the counter has wrapped: the cycle before the wrap ran on
\* the slot of the largest counter value, the next cycle runs on slot 0.
C23_Witness ==
    /\ m_imageCount = 3
    /\ m_currentFrame = 0
    /\ InCall
    /\ frameIndex = 0
    /\ okCalls = 1
    /\ \E s \in submissions :
           SlotOf(s.fence) = (CounterModulus - 1) % m_imageCount

\* The steps of a call in which its command buffer holds what the passes
\* recorded and the device does not own it yet.
WhileRecorded == {"passes", "reset", "submit"}

RECURSIVE Barriers(_)
Barriers(cmds) ==
    IF cmds = <<>> THEN <<>>
    ELSE (IF Head(cmds).cmd = "pipelineBarrier2" THEN <<Head(cmds)>> ELSE <<>>)
             \o Barriers(Tail(cmds))

\* The passes of a list that request a transition, in order.
RECURSIVE Transitions(_)
Transitions(passes) ==
    IF passes = <<>> THEN <<>>
    ELSE (IF Head(passes).oldLayout # Head(passes).newLayout
          THEN <<Head(passes)>> ELSE <<>>)
             \o Transitions(Tail(passes))

\* C25: every barrier recorded for a pass is a barrier of a single image whose
\* source and destination stage masks, source and destination access masks and
\* old and new layout equal those of the pass descriptor, and whose source and
\* destination queue family are both 'ignored'.
C25_BarrierEqualsDescriptor ==
    pc \in WhileRecorded =>
        LET barriers == Barriers(cmdBuf[cmd].cmds)
            passes == Transitions(SubSeq(m_passes, 1, passIdx - 1))
        IN  /\ Len(barriers) = Len(passes)
            /\ \A k \in 1..Len(barriers) :
                   /\ barriers[k].imageMemoryBarrierCount = 1
                   /\ barriers[k].srcStageMask = passes[k].srcStageMask
                   /\ barriers[k].dstStageMask = passes[k].dstStageMask
                   /\ barriers[k].srcAccessMask = passes[k].srcAccessMask
                   /\ barriers[k].dstAccessMask = passes[k].dstAccessMask
                   /\ barriers[k].oldLayout = passes[k].oldLayout
                   /\ barriers[k].newLayout = passes[k].newLayout
                   /\ barriers[k].srcQueueFamilyIndex = "VK_QUEUE_FAMILY_IGNORED"
                   /\ barriers[k].dstQueueFamilyIndex = "VK_QUEUE_FAMILY_IGNORED"

\* Two passes with different descriptors have each recorded their barrier.
C25_Witness ==
    /\ pc = "submit"
    /\ m_passes = <<PresentTransition, MainPass>>
    /\ Len(Barriers(cmdBuf[cmd].cmds)) = 2
    /\ Barriers(cmdBuf[cmd].cmds)[1].dstStageMask = "BottomOfPipe"
    /\ Barriers(cmdBuf[cmd].cmds)[2].dstStageMask = "ColorAttachmentOutput"

\* The step in which executeFrame() is entered and selects its slot.
Enters == pc = "idle" /\ pc' = "wait"

\* C26: the frame counter never decreases; it increases by exactly one in
\* each executeFrame() call that returns normally, it is not changed by init()
\* or addPass(), and it is read only to compute the slot index. Checked as:
\* the counter changes in no step but the normal return, where it grows by
\* one, so that it always equals the number of calls that returned normally;
\* the steps of init() and addPass(), whenever they are called, leave it as
\* it is; and the one value derived from it is the slot index chosen on entry.
\* (The counter stays far from its largest value here; the wrap is C23.)
C26_CounterCountsReturns ==
    [][/\ m_currentFrame' >= m_currentFrame
       /\ Returns => /\ m_currentFrame' = m_currentFrame + 1
                     /\ result' = "returned"
       /\ m_currentFrame' # m_currentFrame => Returns
       /\ (initCalls' # initCalls \/ m_passes' # m_passes) =>
              m_currentFrame' = m_currentFrame
       /\ m_currentFrame' = okCalls'
       /\ Enters => /\ frameIndex' = m_currentFrame % m_imageCount
                    /\ m_currentFrame' = m_currentFrame]_vars

\* A pass is added after two frames have returned: the counter is still 2.
C26_Witness ==
    /\ pc = "idle"
    /\ lastOp = "addPass"
    /\ okCalls = 2
    /\ m_currentFrame = 2
    /\ result = "returned"

\* What the current cycle has done so far matches a cycle after a plain
\* success: the same calls in the same order, the commands of both passes
\* recorded for the image returned, that buffer submitted, that image presented.
AsForPlainSuccess ==
    /\ pc \in AfterAcquire
    /\ IsPrefix(opLog, ExpectedOps)
    /\ pc = "begin" => opLog = <<"wait", "acquire">>
    /\ pc \in {"reset", "submit"} =>
           cmdBuf[cmd].cmds = ScenarioCommands(imageIndex)
    /\ pc \in AfterSubmit =>
           \/ \E s \in submissions : s.call = calls /\ s.commandBuffer = cmd
           \/ fence[inFlightFence]
    /\ pc \in AfterPresent =>
           /\ opLog[Len(opLog)] = "present"
           /\ \/ \E p \in presents :
                      p.call = calls /\ p.imageIndex = imageIndex /\ p.accepted
              \/ /\ imageState[imageIndex] # "acquired"
                 /\ ~ \E s \in submissions : s.call = calls

\* C27: when the acquisition reports the surface as suboptimal,
\* executeFrame() ignores that status: it records, submits and presents with
\* the returned image index and advances the frame counter exactly as for a
\* plain success.
C27_SuboptimalIsIgnored ==
    [][(acquireResult = "eSuboptimalKHR" /\ m_passes = ApplicationPasses) =>
           /\ AsForPlainSuccess
           /\ pc' = "idle" =>
                  \/ result' = "threw"
                  \/ /\ pc = "advance"
                     /\ result' = "returned"
                     /\ opLog' = ExpectedOps
                     /\ m_currentFrame' = m_currentFrame + 1]_vars

\* A cycle whose acquire reported eSuboptimalKHR for image 1 has submitted
\* and presented that image and is about to advance the counter.
C27_Witness ==
    /\ pc = "advance"
    /\ acquireResult = "eSuboptimalKHR"
    /\ imageIndex = 1
    /\ \E p \in presents : p.call = calls /\ p.imageIndex = 1
    /\ \E s \in submissions : s.call = calls

\* C28: a slot's render-complete semaphore is never given a new signal
\* operation by a submission while it is still signaled or still has a
\* presentation wait pending on it from the slot's previous cycle: between two
\* signals of the same render-complete semaphore the present that waits on it
\* has consumed it. Stated for the moment the signal is about to happen (the
\* submission is executing), which is later than the moment it is submitted.
C28_RenderFinishedConsumedBeforeReuse ==
    \A s \in submissions :
        s.state = "executing" =>
            /\ ~semaphore[s.signalSemaphore]
            /\ \A p \in presents :
                   p.waitSemaphore = s.signalSemaphore => p.call >= s.call

\* C29: whenever executeFrame() passes a slot's presentation-ready semaphore
\* to the acquire, that semaphore is unsignaled and has no signal or wait
\* operation pending on it, after any sequence of earlier calls, including
\* calls that failed after their acquire.
C29_AcquireSemaphoreIdle ==
    pc = "acquire" =>
        /\ ~semaphore[presentComplete]
        /\ \A a \in acquires : a.sem # presentComplete
        /\ \A s \in submissions :
               s.state = "queued" => s.waitSemaphore # presentComplete

\* C30: after an executeFrame() call has failed at any step, a later
\* executeFrame() call still eventually gets past its fence wait, under a fair
\* GPU: a failed cycle never leaves the slot's fence unsignaled with no
\* pending submission that will signal it.
C30_FenceWaitEndsAfterFailure ==
    (pc = "wait" /\ faults > 0) ~> (pc # "wait")

\* The step in which the running call throws.
Fails == InCall /\ result' = "threw"

\* C31: an executeFrame() call that fails at any step leaves the frame counter
\* unchanged, so the next call selects the same slot again; a call that fails
\* at the acquire also leaves the fence of the slot signaled and its command
\* buffer not recorded anew.
C31_FailedCallKeepsSlot ==
    [][/\ Fails =>
              /\ pc' = "idle"
              /\ m_currentFrame' = m_currentFrame
              /\ okCalls' = okCalls
              /\ frameIndex = m_currentFrame' % m_imageCount'
       /\ (Enters /\ result = "threw") =>
              /\ frameIndex' = m_currentFrame % m_imageCount
              /\ m_currentFrame = okCalls
       /\ (Fails /\ pc = "acquire") =>
              /\ opLog' = <<"wait">>
              /\ fence'[inFlightFence]
              /\ cmdBuf' = cmdBuf
              /\ cmdBuf[cmd].state # "recording"]_vars

\* With two slots the second call failed at its acquire on slot 1, and the
\* third call is on slot 1 again, past its fence wait.
C31_Witness ==
    /\ pc = "acquire"
    /\ calls = 3
    /\ faults = 1
    /\ okCalls = 1
    /\ m_currentFrame = 1
    /\ frameIndex = 1
    /\ m_imageCount = 2
    /\ cmdBuf[cmd].state = "initial"

\* The allocation round of a per-slot object.
RoundOf(handle) == handle[2]

\* C32: after every init() call, including a second or later one on the same
\* RenderGraph, the command-buffer array, both semaphore arrays and the fence
\* array each have exactly slotCount entries, and entry i of each array
\* belongs to the same allocation round.
C32_ArraysOfOneRound ==
    (initCalls >= 1 /\ m_imageCount > 0) =>
        /\ Len(m_commandBuffers) = m_imageCount
        /\ Len(m_presentCompleteSemaphores) = m_imageCount
        /\ Len(m_renderFinishedSemaphores) = m_imageCount
        /\ Len(m_inFlightFences) = m_imageCount
        /\ \A k \in 1..m_imageCount :
               /\ RoundOf(m_commandBuffers[k]) = RoundOf(m_inFlightFences[k])
               /\ RoundOf(m_presentCompleteSemaphores[k]) = RoundOf(m_inFlightFences[k])
               /\ RoundOf(m_renderFinishedSemaphores[k]) = RoundOf(m_inFlightFences[k])

\* C33: a slot's fence is never reset while a submission that will signal it
\* is still pending: every reset of a fence happens when no earlier submission
\* naming that fence is queued or executing.
C33_NoResetWhilePending ==
    [][\A f \in DOMAIN fence :
           (f \in DOMAIN fence' /\ fence[f] /\ ~fence'[f]) =>
               /\ pc = "reset"
               /\ f = inFlightFence
               /\ \A s \in submissions : s.fence # f]_vars

\* The third call resets the fence of slot 0, which the submission of the
\* first call has signaled, while the submission of the second call is pending.
C33_Witness ==
    /\ pc = "submit"
    /\ calls = 3
    /\ frameIndex = 0
    /\ ~fence[inFlightFence]
    /\ \E s \in submissions : s.call = 2 /\ s.fence # inFlightFence
    /\ \A s \in submissions : s.fence # inFlightFence

\* The images the application holds: acquired and not handed to presentation.
Acquired == {i \in DOMAIN imageState : imageState[i] = "acquired"}

\* C34: whenever executeFrame() returns, normally or with an error, no
\* swapchain image is left acquired without having been handed to
\* presentation: every image acquired by a cycle is presented exactly once by
\* that same cycle.
C34_NoImageLeftAcquired ==
    pc = "idle" => Acquired = {}

\* C34, as far as it holds: a call that returns normally has presented the
\* image it acquired, exactly once, and leaves no image acquired. A call that
\* throws at the acquire has acquired nothing; a call that throws between its
\* acquire and its present leaves the image acquired and unpresented, and a
\* present that throws may leave it so too. No call acquires a second image.
C34_ImagePresentedOnNormalReturn ==
    [][/\ (InCall /\ pc' = "idle" /\ result' = "returned") =>
              /\ Acquired' = {}
              /\ Issued("acquire") = 1
              /\ Issued("present") = 1
              /\ \A p \in presents : p.call = calls => p.imageIndex = imageIndex
       /\ (Fails /\ pc \in {"wait", "acquire"}) => Acquired' = {}
       /\ (Fails /\ pc \in {"begin", "passes", "reset", "submit"}) =>
              /\ Acquired' = {imageIndex}
              /\ \A p \in presents' : p.call # calls
       /\ (Fails /\ pc = "present") => Acquired' \subseteq {imageIndex}
       /\ Cardinality(Acquired') <= 1
       /\ InCall' => Acquired' \subseteq {imageIndex'}]_vars

\* The first call returned normally and its image went to presentation; the
\* second call threw at its submit and leaves image 1 acquired.
C34_Witness ==
    /\ FrameThrew
    /\ okCalls = 1
    /\ calls = 2
    /\ Acquired = {1}
    /\ opLog[Len(opLog)] = "reset"
    /\ \E p \in presents : p.call = 1 /\ p.imageIndex = 0

\* The step in which the RenderGraph and its slot resources are destroyed.
Destroys == pc # "destroyed" /\ pc' = "destroyed"

\* C35: in the application, the RenderGraph and its slot resources (fences,
\* semaphores, command buffers) are never destroyed while a submission using
\* them is still in flight, on every exit path of the main loop, including the
\* path where executeFrame() throws.
C35_NotDestroyedInFlight ==
    [][Destroys =>
           \A s \in submissions :
               /\ s.commandBuffer \notin DOMAIN cmdBuf
               /\ s.fence \notin DOMAIN fence
               /\ s.waitSemaphore \notin DOMAIN semaphore
               /\ s.signalSemaphore \notin DOMAIN semaphore]_vars

\* The layouts a swapchain image can be in when a cycle acquires it: Undefined
\* before its first use, PresentSrcKHR after a cycle presented it.
LayoutsAtAcquire == {"Undefined", "PresentSrcKHR"}

\* The layout of the image after the commands of a buffer, in order, when it
\* was in the given layout before them.
RECURSIVE LayoutAfter(_, _)
LayoutAfter(cmds, layout) ==
    IF cmds = <<>> THEN layout
    ELSE LayoutAfter(Tail(cmds),
                     IF Head(cmds).cmd = "pipelineBarrier2"
                     THEN Head(cmds).newLayout ELSE layout)

\* Every barrier among the commands finds the image in its old layout (or
\* names Undefined), and every callback finds it in ColorAttachmentOptimal.
LayoutsFollow(cmds, layout) ==
    \A k \in 1..Len(cmds) :
        LET before == LayoutAfter(SubSeq(cmds, 1, k - 1), layout)
        IN  /\ cmds[k].cmd = "pipelineBarrier2" =>
                   cmds[k].oldLayout \in {"Undefined", before}
            /\ cmds[k].cmd = "recordFunc" => before = "ColorAttachmentOptimal"

\* C36: with the two passes the application registers, in every cycle each
\* barrier's old layout is Undefined or equals the layout the acquired image
\* is in at that point, the draw callback runs while the image is in
\* ColorAttachmentOptimal, and the image is in PresentSrcKHR when it is
\* presented.
C36_LayoutsOfTheApplication ==
    m_passes = ApplicationPasses =>
        \A layout \in LayoutsAtAcquire :
            /\ \A h \in DOMAIN cmdBuf :
                   cmdBuf[h].state \in {"recording", "executable", "pending"} =>
                       LayoutsFollow(cmdBuf[h].cmds, layout)
            /\ \A h \in Recorded :
                   LayoutAfter(cmdBuf[h].cmds, layout) = "PresentSrcKHR"
            /\ \A s \in submissions : \A p \in presents :
                   (p.call = s.call /\ cmdBuf[s.commandBuffer].state = "pending") =>
                       \A k \in 1..Len(cmdBuf[s.commandBuffer].cmds) :
                           LET c == cmdBuf[s.commandBuffer].cmds[k]
                           IN  c.cmd = "pipelineBarrier2" => c.image = p.imageIndex
            /\ pc \in AfterSubmit =>
                   \/ \E s \in submissions : s.call = calls /\ s.commandBuffer = cmd
                   \/ fence[inFlightFence]

\* The second cycle has acquired the one image again, which the first cycle
\* left in PresentSrcKHR, has recorded both passes for it and presents it.
C36_Witness ==
    /\ pc = "advance"
    /\ m_passes = ApplicationPasses
    /\ numImages = 1
    /\ calls = 2
    /\ okCalls = 1
    /\ cmdBuf[cmd].state = "pending"
    /\ cmdBuf[cmd].cmds = ScenarioCommands(0)
    /\ \E p \in presents : p.call = 2 /\ p.imageIndex = 0

\* ---------------------------------------------------------------------------
\* The queues of the application, which the RenderGraph holds by reference.

\* std::find_if and the two loops: the first index that qualifies, or size.
First(indices, size) ==
    IF indices = {} THEN size
    ELSE CHOOSE i \in indices : \A j \in indices : i <= j

\* findQueueFamilies: <<graphicsIndex, presentIndex>>, indices counted from 0.
FindQueueFamilies(props) ==
    LET size == Len(props)
        graphics == {i \in 0..(size - 1) : props[i + 1].graphics}
        present == {i \in 0..(size - 1) : props[i + 1].present}
        graphicsIndex == First(graphics, size)
    IN  IF graphicsIndex \in present
        THEN <<graphicsIndex, graphicsIndex>>
        ELSE IF graphics \cap present # {}
             THEN <<First(graphics \cap present, size), First(graphics \cap present, size)>>
             ELSE <<graphicsIndex, First(present, size)>>

\* findQueueFamilies ends in throw std::runtime_error.
FindQueueFamiliesThrows(props) ==
    \/ FindQueueFamilies(props)[1] = Len(props)
    \/ FindQueueFamilies(props)[2] = Len(props)

\* vk::raii::Queue(device, family, 0) on a device created with queues of the
\* families in created.  vkGetDeviceQueue requires the family to be one of
\* them; otherwise the driver may hand out anything, or nothing.
GetDeviceQueue(created, family) ==
    IF family \in created
    THEN {Queue(family)}
    ELSE {Queue(family), <<>>}

\* createLogicalDevice(), from the state pickPhysicalDevice() leaves.
createLogicalDevice ==
    /\ setup = "createLogicalDevice"
    /\ IF FindQueueFamiliesThrows(queueFamilyProperties)
       THEN /\ setup' = "threw"
            /\ UNCHANGED <<graphicsFamily, presentFamily, deviceQueues,
                           graphicsQueue, presentQueue>>
       ELSE LET families == FindQueueFamilies(queueFamilyProperties)
                created == {families[1]}
            IN  /\ graphicsFamily' = families[1]
                /\ presentFamily' = families[2]
                /\ deviceQueues' = created
                /\ graphicsQueue' \in GetDeviceQueue(created, families[1])
                /\ presentQueue' \in GetDeviceQueue(created, families[2])
                /\ setup' \in IF families[2] \in created
                               THEN {"done"}
                               ELSE {"done", "trap"}
    /\ UNCHANGED <<queueFamilyProperties, swapchainVars, memberVars, gpuVars, pc,
                   localVars, ghostVars>>

\* The physical device pickPhysicalDevice() accepted has a graphics family;
\* whether a family presents to the surface is the platform's business.
InitQueues ==
    /\ InitRenderGraph
    /\ \E n \in 1..MaxFamilies :
           queueFamilyProperties \in
               [1..n -> [graphics : BOOLEAN, present : BOOLEAN]]
    /\ \E i \in DOMAIN queueFamilyProperties : queueFamilyProperties[i].graphics
    /\ graphicsFamily = 0
    /\ presentFamily = 0
    /\ deviceQueues = {}
    /\ graphicsQueue = <<>>
    /\ presentQueue = <<>>
    /\ setup = "createLogicalDevice"

NextQueues == createLogicalDevice

SpecQueues == InitQueues /\ [][NextQueues]_vars

\* C37: the graphics queue and the present queue the RenderGraph is given
\* both come from queue families the logical device was created with a
\* queue of, whatever findQueueFamilies returned, the case of a present
\* family other than the graphics family included.
C37_QueuesOfCreatedFamilies ==
    setup \in {"done", "trap"} =>
        /\ graphicsFamily \in deviceQueues
        /\ presentFamily \in deviceQueues

====
